---- MODULE Spec2Model ----
(***************************************************************************)
(* Model of the ai-competitor-tracker scrapers: the configuration-driven   *)
(* pipeline of scraper.py (CompetitorScraper) and the two single-site      *)
(* scripts openai_scraper.py and anthropic_scraper.py.                     *)
(*                                                                         *)
(* Text is a sequence of one-character strings, so that prefix tests,      *)
(* trimming, slicing and concatenation are computed as Python computes     *)
(* them.  An optional value (an element or attribute that may be missing)  *)
(* is a sequence of length 0 (missing) or 1 (present).                     *)
(***************************************************************************)
EXTENDS Integers, Sequences, FiniteSets, TLC

VARIABLES
    prog,        \* which script runs: "scraper", "openai" or "anthropic"
    pc,          \* position of the script
    configFile,  \* config.json on disk, as the constructor finds it
    config,      \* self.config
    i,           \* scrape_all: 1-based index of the competitor being scraped
    html,        \* the value fetch_page returned / response.text of the site scripts
    fetchErr,    \* the requests exception the last fetch caught ("none" if none)
    results,     \* scrape_all: the results list
    report,      \* the Markdown report file: a sequence of lines, <<>> while not written
    reportFile,  \* generate_report's / save_results' return value, <<>> before
    ret,         \* what run() returned to main, <<>> before
    raised,      \* the exception that escaped to the caller ("none" if none)
    log,         \* history: the fetches and sleeps performed, in order
    articles,    \* fetch_openai_blog: the candidate elements
    news_links,  \* fetch_anthropic_news: the anchors find_all matched
    unique_links,\* fetch_anthropic_news: the anchors kept by the duplicate filter
    post_data,   \* the site scripts: the dictionary of the last element processed
    blog_posts,  \* fetch_openai_blog: the list built and returned
    news_posts,  \* fetch_anthropic_news: the list built and returned
    jsonFile     \* save_results: the JSON file, <<>> while not written

scraperVars == <<configFile, config, results, ret, log>>
openaiVars == <<articles, blog_posts>>
anthropicVars == <<news_links, unique_links, news_posts>>
fileVars == <<report, reportFile, jsonFile>>

vars == <<prog, pc, i, html, fetchErr, raised, post_data,
          scraperVars, openaiVars, anthropicVars, fileVars>>

----------------------------------------------------------------------------
(* Bounds of the model.                                                    *)

MaxTargets == 2
MaxVar == 2
MaxFillScraper == 6
MaxFillOpenai == 11
MaxFillAnthropic == 16

----------------------------------------------------------------------------
(* Text helpers: Python's str operations on sequences of characters.       *)

Min(a, b) == IF a <= b THEN a ELSE b

\* s[:n]
Take(s, n) == SubSeq(s, 1, Min(n, Len(s)))

\* s[n:]
Drop(s, n) == SubSeq(s, n + 1, Len(s))

\* s.startswith(p)
StartsWith(s, p) == Len(p) <= Len(s) /\ SubSeq(s, 1, Len(p)) = p

\* p in s
Contains(s, p) ==
    \E j \in 0..(Len(s) - Len(p)) : SubSeq(s, j + 1, j + Len(p)) = p

IsSpace(c) == c = " "

RECURSIVE LStrip(_)
LStrip(s) == IF s # <<>> /\ IsSpace(Head(s)) THEN LStrip(Tail(s)) ELSE s

RECURSIVE RStrip(_)
RStrip(s) ==
    IF s # <<>> /\ IsSpace(s[Len(s)]) THEN RStrip(SubSeq(s, 1, Len(s) - 1)) ELSE s

\* s.strip(), and get_text(strip=True) of an element holding one text node
Strip(s) == RStrip(LStrip(s))

\* n copies of x
RECURSIVE Rep(_, _)
Rep(x, n) == IF n <= 0 THEN <<>> ELSE <<x>> \o Rep(x, n - 1)

----------------------------------------------------------------------------
(* scraper.py: configuration.                                              *)

AcmeName == <<"A", "c", "m", "e">>
AcmeUrl == <<"h", "t", "t", "p", "s", ":", "/", "/", "a", "c", "m", "e", ".", "t", "e", "s", "t", "/", "n", "e", "w", "s">>
BetaName == <<"B", "e", "t", "a">>
BetaUrl == <<"h", "t", "t", "p", "s", ":", "/", "/", "b", "e", "t", "a", ".", "t", "e", "s", "t", "/", "b", "l", "o", "g">>
DefaultName == <<"O", "p", "e", "n", "A", "I">>
DefaultUrl == <<"h", "t", "t", "p", "s", ":", "/", "/", "o", "p", "e", "n", "a", "i", ".", "c", "o", "m", "/", "b", "l", "o", "g">>

\* the competitor records a config.json may list
Targets ==
    { [name |-> AcmeName, url |-> AcmeUrl, selector |-> "article"],
      [name |-> BetaName, url |-> BetaUrl, selector |-> "div.post"] }

RECURSIVE SeqsUpTo(_, _)
SeqsUpTo(S, n) ==
    IF n = 0 THEN {<<>>}
    ELSE LET shorter == SeqsUpTo(S, n - 1)
         IN  shorter \cup {Append(s, x) : s \in {t \in shorter : Len(t) = n - 1}, x \in S}

\* config.json as the constructor can find it: absent, present but not JSON,
\* or present with a "competitors" list
ConfigFiles ==
    { [exists |-> FALSE, json |-> FALSE, competitors |-> <<>>],
      [exists |-> TRUE, json |-> FALSE, competitors |-> <<>>] }
    \cup { [exists |-> TRUE, json |-> TRUE, competitors |-> c] :
             c \in SeqsUpTo(Targets, MaxTargets) }

get_default_config ==
    [competitors |-> << [name |-> DefaultName, url |-> DefaultUrl, selector |-> "article"] >>]

NoConfig == [competitors |-> <<>>]

----------------------------------------------------------------------------
(* scraper.py: pages and extraction.                                       *)

HeadingT == <<" ", "T", " ">>
HeadingBlank == <<" ">>
RelHref == <<"/", "n", "e", "w", "s", "/", "x">>
AbsHref == <<"h", "t", "t", "p", "s", ":", "/", "/", "o", ".", "t", "/", "y">>
NoTitleFound == <<"N", "o", " ", "t", "i", "t", "l", "e", " ", "f", "o", "u", "n", "d">>

\* A candidate node matched by the selector: its first h1..h4 (optional, raw
\* text) and its first <a> (optional, with an optional href attribute).
ScraperFiller == [heading |-> <<HeadingT>>, anchor |-> << <<RelHref>> >>]

ScraperNodes ==
    { [heading |-> <<>>, anchor |-> <<>>],
      [heading |-> <<HeadingBlank>>, anchor |-> << <<AbsHref>> >>],
      [heading |-> <<HeadingT>>, anchor |-> << <<>> >>] }

\* soup.select(selector) of the pages the web can serve
ScraperPages ==
    { pre \o Rep(ScraperFiller, k) :
        pre \in {<<>>} \cup {<<n>> : n \in ScraperNodes}, k \in 0..MaxFillScraper }

HtmlNone == [kind |-> "None", articles |-> <<>>]
HtmlEmpty == [kind |-> "empty", articles |-> <<>>]
HtmlPage(a) == [kind |-> "markup", articles |-> a]

RequestExceptions == {"Timeout", "ConnectionError", "HTTPError"}

ScraperCap == 5

\* the dictionary parse_content appends for one article
parse_item(article) ==
    [title |-> IF article.heading # <<>> THEN Strip(article.heading[1]) ELSE NoTitleFound,
     link  |-> IF article.anchor # <<>> /\ article.anchor[1] # <<>>
               THEN article.anchor[1][1] ELSE <<>>]

\* parse_content without the slice [:5]
parse_content_uncapped(h) ==
    IF h.kind # "markup" THEN <<>>
    ELSE [j \in 1..Len(h.articles) |-> parse_item(h.articles[j])]

\* parse_content skipping the articles that have no heading
parse_content_dropping(h) ==
    IF h.kind # "markup" THEN <<>>
    ELSE LET HasHeading(a) == a.heading # <<>>
             taken == SelectSeq(Take(h.articles, ScraperCap), HasHeading)
         IN  [j \in 1..Len(taken) |-> parse_item(taken[j])]

parse_content(h) ==
    IF h.kind # "markup" THEN <<>>
    ELSE LET taken == Take(h.articles, ScraperCap)
         IN  [j \in 1..Len(taken) |-> parse_item(taken[j])]

----------------------------------------------------------------------------
(* scraper.py: the report.                                                 *)

Line(kind, text) == [line |-> kind, text |-> text]

RECURSIVE item_lines(_)
item_lines(data) ==
    IF data = <<>> THEN <<>>
    ELSE LET item == Head(data)
         IN  <<Line("item", item.title)>>
             \o (IF item.link # <<>> THEN <<Line("link", item.link)>> ELSE <<>>)
             \o item_lines(Tail(data))

\* section_lines without its else branch
section_lines_silent(company_data) ==
    <<Line("h2", company_data.name), Line("source", company_data.url)>>
    \o (IF company_data.data # <<>>
        THEN <<Line("updates", <<>>)>> \o item_lines(company_data.data)
        ELSE <<>>)
    \o <<Line("rule", <<>>)>>

section_lines(company_data) ==
    <<Line("h2", company_data.name), Line("source", company_data.url)>>
    \o (IF company_data.data # <<>>
        THEN <<Line("updates", <<>>)>> \o item_lines(company_data.data)
        ELSE <<Line("none", <<>>)>>)
    \o <<Line("rule", <<>>)>>

\* sections written last result first
RECURSIVE sections_reversed(_)
sections_reversed(rs) ==
    IF rs = <<>> THEN <<>> ELSE sections_reversed(Tail(rs)) \o section_lines(Head(rs))

RECURSIVE sections(_)
sections(rs) == IF rs = <<>> THEN <<>> ELSE section_lines(Head(rs)) \o sections(Tail(rs))

report_lines(rs) == <<Line("h1", <<>>), Line("generated", <<>>)>> \o sections(rs)

ReportPath == <<"reports/report.md">>

----------------------------------------------------------------------------
(* The site scripts: link normalisation and dictionaries.                  *)

OpenaiBase == <<"h", "t", "t", "p", "s", ":", "/", "/", "o", "p", "e", "n", "a", "i", ".", "c", "o", "m">>
AnthropicBase == <<"h", "t", "t", "p", "s", ":", "/", "/", "w", "w", "w", ".", "a", "n", "t", "h", "r", "o", "p", "i", "c", ".", "c", "o", "m">>

\* the base prefixed to every href
normalize_link_always(base, href) == base \o href

\* if href.startswith('/'): href = f"{base}{href}"
normalize_link(base, href) ==
    IF StartsWith(href, <<"/">>) THEN base \o href ELSE href

\* a Python dict as a function from its keys; {} is the empty function
EmptyDict == [key \in {} |-> <<>>]

HasKey(d, key) == key \in DOMAIN d

\* json.dump of one dict: its (key, value) pairs in insertion order
RECURSIVE dict_items(_, _)
dict_items(d, order) ==
    IF order = <<>> THEN <<>>
    ELSE (IF HasKey(d, Head(order)) THEN << <<Head(order), d[Head(order)]>> >> ELSE <<>>)
         \o dict_items(d, Tail(order))

json_dump(posts, order) == [j \in 1..Len(posts) |-> dict_items(posts[j], order)]

----------------------------------------------------------------------------
(* openai_scraper.py: pages and extraction.                                *)

OpenaiAbsHref == OpenaiBase \o <<"/", "y">>
ProtoRelHref == <<"/", "/", "c", "d", "n", ".", "t", "/", "x">>
BareRelHref == <<"n", "e", "w", "s", "/", "x">>
BodyText == <<" ", "b", "o", "d", "y", " ">>
DateText == <<" ", "2", "0", "2", "4", " ">>
Ellipsis == <<".", ".", ".">>

EmptyText == <<>>

TitleSlice == 100
OpenaiCap == 10

LongText == Rep("x", TitleSlice + 1)

\* A candidate element: its first h1..h6 (optional, raw text), its whole
\* text, its first <a> (optional, with an optional href) and its first
\* time/span whose class contains "date" (optional, raw text).
OpenaiFiller ==
    [heading |-> <<HeadingT>>, text |-> HeadingT, anchor |-> << <<RelHref>> >>, date |-> <<>>]

OpenaiNodes ==
    { [heading |-> <<>>, text |-> BodyText, anchor |-> << <<OpenaiAbsHref>> >>, date |-> <<DateText>>],
      [heading |-> <<HeadingBlank>>, text |-> HeadingBlank, anchor |-> << <<>> >>, date |-> <<>>],
      [heading |-> <<>>, text |-> <<>>, anchor |-> <<>>, date |-> <<>>],
      [heading |-> <<>>, text |-> LongText, anchor |-> << <<ProtoRelHref>> >>, date |-> <<>>],
      [heading |-> <<HeadingT>>, text |-> HeadingT, anchor |-> << <<EmptyText>> >>, date |-> <<>>],
      [heading |-> <<HeadingT>>, text |-> HeadingT, anchor |-> << <<BareRelHref>> >>, date |-> <<>>] }

\* an <a href*="/news/"> matched by the fallback selector: no heading and no
\* anchor below it
OpenaiFallbackNode ==
    [heading |-> <<>>, text |-> HeadingT, anchor |-> <<>>, date |-> <<>>]

\* the pages the site can serve: what find_all matches and what the
\* fallback select matches
OpenaiPages ==
    { [primary |-> pre \o Rep(OpenaiFiller, n), fallback |-> <<>>] :
        pre \in SeqsUpTo(OpenaiNodes, MaxVar), n \in 0..MaxFillOpenai }
    \cup { [primary |-> <<>>, fallback |-> Rep(OpenaiFallbackNode, n)] :
             n \in 0..MaxFillOpenai }

\* articles = find_all(...); if not articles: articles = select(...)[:10]
openai_articles(page) ==
    IF page.primary # <<>> THEN page.primary ELSE Take(page.fallback, OpenaiCap)

openai_title(article) ==
    IF article.heading # <<>> THEN Strip(article.heading[1])
    ELSE Take(Strip(article.text), TitleSlice) \o Ellipsis

\* post_data after the body of the loop of fetch_openai_blog
openai_post_data(article) ==
    ("title" :> openai_title(article))
    @@ (IF article.anchor # <<>> /\ article.anchor[1] # <<>>
        THEN "link" :> normalize_link(OpenaiBase, article.anchor[1][1]) ELSE EmptyDict)
    @@ (IF article.date # <<>> THEN "date" :> Strip(article.date[1]) ELSE EmptyDict)

\* if 'title' in post_data and post_data['title']
openai_keep(pd) == HasKey(pd, "title") /\ pd["title"] # <<>>

Untitled == <<"U", "n", "t", "i", "t", "l", "e", "d">>

OpenaiKeys == <<"title", "link", "date">>

RECURSIVE openai_post_lines(_)
openai_post_lines(posts) ==
    IF posts = <<>> THEN <<>>
    ELSE LET post == Head(posts)
         IN  <<Line("h3", IF HasKey(post, "title") THEN post["title"] ELSE Untitled)>>
             \o (IF HasKey(post, "link") THEN <<Line("link", post["link"])>> ELSE <<>>)
             \o (IF HasKey(post, "date") THEN <<Line("date", post["date"])>> ELSE <<>>)
             \o openai_post_lines(Tail(posts))

openai_report_lines(posts) ==
    <<Line("h1", <<>>), Line("generated", <<>>), Line("source", <<>>), Line("rule", <<>>)>>
    \o (IF posts # <<>>
        THEN <<Line("h2", <<>>)>> \o openai_post_lines(posts)
        ELSE <<Line("none", <<>>)>>)

----------------------------------------------------------------------------
(* anthropic_scraper.py: pages and extraction.                             *)

NewsMarker == <<"/", "n", "e", "w", "s", "/">>
ResearchMarker == <<"/", "r", "e", "s", "e", "a", "r", "c", "h", "/">>
NewsA == NewsMarker \o <<"a">>
NewsC == NewsMarker \o <<"c">>
NewsD == NewsMarker \o <<"d">>
ResearchB == ResearchMarker \o <<"b">>
AboutHref == <<"/", "a", "b", "o", "u", "t">>
MidHref == <<"/", "x">> \o NewsA

Announcements == <<"A", "n", "n", "o", "u", "n", "c", "e", "m", "e", "n", "t", "s">>
Policy == <<"P", "o", "l", "i", "c", "y">>
Research == <<"R", "e", "s", "e", "a", "r", "c", "h">>
Product == <<"P", "r", "o", "d", "u", "c", "t">>
SocietalImpacts == <<"S", "o", "c", "i", "e", "t", "a", "l", " ", "I", "m", "p", "a", "c", "t", "s">>

categories == <<Announcements, Policy, Research, Product, SocietalImpacts>>

TextT == <<"T">>

AnthropicCap == 15

\* An <a> of the main content: its href (optional) and its raw text.
Anchor(href, text) == [href |-> href, text |-> text]

AnthropicNodes ==
    { Anchor(<<NewsA>>, TextT),
      Anchor(<<NewsA>>, Policy \o <<" ">> \o TextT),
      Anchor(<<ResearchB>>, Research \o Policy \o <<" ">> \o TextT),
      Anchor(<<ResearchB>>, Policy),
      Anchor(<<AboutHref>>, TextT),
      Anchor(<<MidHref>>, TextT),
      Anchor(<<>>, TextT),
      Anchor(<<NewsC>>, <<" ">> \o SocietalImpacts \o <<" ">> \o TextT \o <<" ">>),
      Anchor(<<NewsD>>, Announcements \o <<" ">> \o Product) }

\* n further anchors with pairwise distinct /news/ hrefs
AnthropicFill(n) == [j \in 1..n |-> Anchor(<<NewsMarker \o Rep("f", j)>>, TextT)]

\* the anchors of the main content of the pages the site can serve
AnthropicPages ==
    { pre \o AnthropicFill(n) :
        pre \in SeqsUpTo(AnthropicNodes, MaxVar), n \in 0..MaxFillAnthropic }

\* find_all('a', href=lambda x: x and ('/news/' in x or '/research/' in x))
IsNewsLink(a) ==
    /\ a.href # <<>> /\ a.href[1] # <<>>
    /\ (Contains(a.href[1], NewsMarker) \/ Contains(a.href[1], ResearchMarker))

find_news_links(anchors) == SelectSeq(anchors, IsNewsLink)

\* the loop over news_links never adding to seen_urls
RECURSIVE filter_unique_no_add(_, _)
filter_unique_no_add(links, seen_urls) ==
    IF links = <<>> THEN <<>>
    ELSE LET href == Head(links).href[1]
         IN  IF /\ href # <<>>
                /\ href \notin seen_urls
                /\ (StartsWith(href, NewsMarker) \/ StartsWith(href, ResearchMarker))
             THEN <<Head(links)>> \o filter_unique_no_add(Tail(links), seen_urls)
             ELSE filter_unique_no_add(Tail(links), seen_urls)

\* the loop over news_links with seen_urls
RECURSIVE filter_unique(_, _)
filter_unique(links, seen_urls) ==
    IF links = <<>> THEN <<>>
    ELSE LET href == Head(links).href[1]
         IN  IF /\ href # <<>>
                /\ href \notin seen_urls
                /\ (StartsWith(href, NewsMarker) \/ StartsWith(href, ResearchMarker))
             THEN <<Head(links)>> \o filter_unique(Tail(links), seen_urls \cup {href})
             ELSE filter_unique(Tail(links), seen_urls)

\* the loop over categories without its break
RECURSIVE strip_category_no_break(_, _)
strip_category_no_break(link_text, cats) ==
    IF cats = <<>> THEN [category |-> <<>>, link_text |-> link_text]
    ELSE IF StartsWith(link_text, Head(cats))
         THEN LET rest == strip_category_no_break(
                              Strip(Drop(link_text, Len(Head(cats)))), Tail(cats))
              IN  [category |-> IF rest.category # <<>> THEN rest.category ELSE <<Head(cats)>>,
                   link_text |-> rest.link_text]
         ELSE strip_category_no_break(link_text, Tail(cats))

\* for category in categories: if link_text.startswith(category): ...; break
RECURSIVE strip_category(_, _)
strip_category(link_text, cats) ==
    IF cats = <<>> THEN [category |-> <<>>, link_text |-> link_text]
    ELSE IF StartsWith(link_text, Head(cats))
         THEN [category |-> <<Head(cats)>>,
               link_text |-> Strip(Drop(link_text, Len(Head(cats))))]
         ELSE strip_category(link_text, Tail(cats))

\* post_data after the body of the loop of fetch_anthropic_news
anthropic_post_data(link) ==
    LET href == link.href[1]
        cleaned == strip_category(Strip(link.text), categories)
    IN  (IF href # <<>> THEN "link" :> normalize_link(AnthropicBase, href) ELSE EmptyDict)
        @@ (IF cleaned.category # <<>> THEN "category" :> cleaned.category[1] ELSE EmptyDict)
        @@ (IF cleaned.link_text # <<>> THEN "title" :> cleaned.link_text ELSE EmptyDict)

\* if 'title' in post_data and 'link' in post_data
anthropic_keep(pd) == HasKey(pd, "title") /\ HasKey(pd, "link")

AnthropicKeys == <<"link", "category", "title">>

RECURSIVE anthropic_post_lines(_)
anthropic_post_lines(posts) ==
    IF posts = <<>> THEN <<>>
    ELSE LET post == Head(posts)
         IN  <<Line("h3", IF HasKey(post, "title") THEN post["title"] ELSE Untitled)>>
             \o (IF HasKey(post, "category") THEN <<Line("category", post["category"])>> ELSE <<>>)
             \o (IF HasKey(post, "link") THEN <<Line("link", post["link"])>> ELSE <<>>)
             \o <<Line("rule", <<>>)>>
             \o anthropic_post_lines(Tail(posts))

anthropic_report_lines(posts) ==
    <<Line("h1", <<>>), Line("generated", <<>>), Line("source", <<>>), Line("rule", <<>>)>>
    \o (IF posts # <<>>
        THEN <<Line("h2", <<>>)>> \o anthropic_post_lines(posts)
        ELSE <<Line("none", <<>>)>>)

----------------------------------------------------------------------------
(* Initial state: one of the three scripts is started.                     *)

NoConfigFile == [exists |-> FALSE, json |-> FALSE, competitors |-> <<>>]

Init ==
    /\ prog \in {"scraper", "openai", "anthropic"}
    /\ pc = "init"
    /\ configFile \in (IF prog = "scraper" THEN ConfigFiles ELSE {NoConfigFile})
    /\ config = NoConfig
    /\ i = 0
    /\ html = HtmlNone
    /\ fetchErr = "none"
    /\ results = <<>>
    /\ report = <<>>
    /\ reportFile = <<>>
    /\ jsonFile = <<>>
    /\ ret = <<>>
    /\ raised = "none"
    /\ log = <<>>
    /\ articles = <<>>
    /\ news_links = <<>>
    /\ unique_links = <<>>
    /\ post_data = EmptyDict
    /\ blog_posts = <<>>
    /\ news_posts = <<>>

----------------------------------------------------------------------------
(* scraper.py: main() = CompetitorScraper() then run().                    *)

\* __init__ -> load_config: only FileNotFoundError is caught
load_config ==
    /\ prog = "scraper" /\ pc = "init"
    /\ IF ~configFile.exists
       THEN config' = get_default_config /\ raised' = raised /\ pc' = "fetch"
       ELSE IF ~configFile.json
       THEN config' = config /\ raised' = "JSONDecodeError" /\ pc' = "raised"
       ELSE config' = [competitors |-> configFile.competitors]
            /\ raised' = raised /\ pc' = "fetch"
    /\ i' = 1
    /\ UNCHANGED <<prog, html, fetchErr, post_data, configFile, results, ret, log,
                   openaiVars, anthropicVars, fileVars>>

\* scrape_competitor -> fetch_page: one GET; any RequestException gives None
fetch_page ==
    /\ prog = "scraper" /\ pc = "fetch" /\ i <= Len(config.competitors)
    /\ \/ \E e \in RequestExceptions :
            /\ html' = HtmlNone /\ fetchErr' = e
            /\ log' = Append(log, [ev |-> "fetch", target |-> i, ok |-> FALSE])
       \/ \E h \in {HtmlEmpty} \cup {HtmlPage(a) : a \in ScraperPages} :
            /\ html' = h /\ fetchErr' = "none"
            /\ log' = Append(log, [ev |-> "fetch", target |-> i, ok |-> TRUE])
    /\ pc' = "parse"
    /\ UNCHANGED <<prog, i, raised, post_data, configFile, config, results, ret,
                   openaiVars, anthropicVars, fileVars>>

\* scrape_competitor: parse_content and the returned dictionary, appended by scrape_all
scrape_competitor ==
    /\ prog = "scraper" /\ pc = "parse"
    /\ LET competitor == config.competitors[i]
       IN  results' = Append(results, [name |-> competitor.name,
                                       url  |-> competitor.url,
                                       data |-> parse_content(html)])
    /\ pc' = "sleep"
    /\ UNCHANGED <<prog, i, html, fetchErr, raised, post_data, configFile, config, ret, log,
                   openaiVars, anthropicVars, fileVars>>

\* scrape_all leaving its loop after a failed fetch
scrape_all_sleep_abort ==
    /\ prog = "scraper" /\ pc = "sleep"
    /\ log' = Append(log, [ev |-> "sleep", target |-> i, ok |-> TRUE])
    /\ i' = IF html = HtmlNone THEN Len(config.competitors) + 1 ELSE i + 1
    /\ html' = HtmlNone /\ fetchErr' = "none"
    /\ pc' = "fetch"
    /\ UNCHANGED <<prog, raised, post_data, configFile, config, results, ret,
                   openaiVars, anthropicVars, fileVars>>

\* scrape_all going on to the next competitor without the sleep when the
\* fetch failed
scrape_all_sleep_skip ==
    /\ prog = "scraper" /\ pc = "sleep"
    /\ log' = IF html = HtmlNone THEN log
              ELSE Append(log, [ev |-> "sleep", target |-> i, ok |-> TRUE])
    /\ i' = i + 1
    /\ html' = HtmlNone /\ fetchErr' = "none"
    /\ pc' = "fetch"
    /\ UNCHANGED <<prog, raised, post_data, configFile, config, results, ret,
                   openaiVars, anthropicVars, fileVars>>

\* scrape_all: time.sleep(2) after every competitor, then the next one; the
\* locals of scrape_competitor and fetch_page are gone
scrape_all_sleep ==
    /\ prog = "scraper" /\ pc = "sleep"
    /\ log' = Append(log, [ev |-> "sleep", target |-> i, ok |-> TRUE])
    /\ i' = i + 1
    /\ html' = HtmlNone /\ fetchErr' = "none"
    /\ pc' = "fetch"
    /\ UNCHANGED <<prog, raised, post_data, configFile, config, results, ret,
                   openaiVars, anthropicVars, fileVars>>

\* run: scrape_all has returned; generate_report writes the file and run
\* returns its path to main
run ==
    /\ prog = "scraper" /\ pc = "fetch" /\ i > Len(config.competitors)
    /\ report' = report_lines(results)
    /\ reportFile' = ReportPath
    /\ ret' = reportFile'
    /\ pc' = "done"
    /\ UNCHANGED <<prog, i, html, fetchErr, raised, post_data, configFile, config, results, log,
                   openaiVars, anthropicVars, jsonFile>>

----------------------------------------------------------------------------
(* openai_scraper.py: main() = fetch_openai_blog() then save_results().    *)

\* the GET and the search for candidate elements
openai_fetch ==
    /\ prog = "openai" /\ pc = "init"
    /\ \/ \E e \in RequestExceptions :
            /\ fetchErr' = e /\ html' = html /\ articles' = articles /\ i' = i
            /\ pc' = "main"
       \/ \E page \in OpenaiPages :
            /\ fetchErr' = "none" /\ html' = page
            /\ articles' = openai_articles(page)
            /\ i' = 1
            /\ pc' = "loop"
    /\ UNCHANGED <<prog, raised, post_data, blog_posts, scraperVars, anthropicVars, fileVars>>

\* one iteration of: for i, article in enumerate(articles[:10], 1)
openai_loop ==
    /\ prog = "openai" /\ pc = "loop" /\ i <= Len(Take(articles, OpenaiCap))
    /\ post_data' = openai_post_data(articles[i])
    /\ blog_posts' = IF openai_keep(post_data') THEN Append(blog_posts, post_data') ELSE blog_posts
    /\ i' = i + 1
    /\ UNCHANGED <<prog, pc, html, fetchErr, raised, articles, scraperVars, anthropicVars, fileVars>>

\* return blog_posts
openai_return ==
    /\ prog = "openai" /\ pc = "loop" /\ i > Len(Take(articles, OpenaiCap))
    /\ pc' = "main"
    /\ UNCHANGED <<prog, i, html, fetchErr, raised, post_data, scraperVars, openaiVars,
                   anthropicVars, fileVars>>

\* main calling save_results without testing blog_posts
openai_main_always ==
    /\ prog = "openai" /\ pc = "main"
    /\ jsonFile' = json_dump(blog_posts, OpenaiKeys)
    /\ \E reportsDir \in BOOLEAN :
         IF reportsDir
         THEN /\ report' = openai_report_lines(blog_posts)
              /\ reportFile' = ReportPath
              /\ raised' = raised /\ pc' = "done"
         ELSE /\ raised' = "FileNotFoundError" /\ pc' = "raised"
              /\ UNCHANGED <<report, reportFile>>
    /\ UNCHANGED <<prog, i, html, fetchErr, post_data, scraperVars, openaiVars, anthropicVars>>

\* main: if blog_posts: save_results(blog_posts); the reports directory is
\* not created by this script
openai_main ==
    /\ prog = "openai" /\ pc = "main"
    /\ IF blog_posts # <<>>
       THEN /\ jsonFile' = json_dump(blog_posts, OpenaiKeys)
            /\ \E reportsDir \in BOOLEAN :
                 IF reportsDir
                 THEN /\ report' = openai_report_lines(blog_posts)
                      /\ reportFile' = ReportPath
                      /\ raised' = raised /\ pc' = "done"
                 ELSE /\ raised' = "FileNotFoundError" /\ pc' = "raised"
                      /\ UNCHANGED <<report, reportFile>>
       ELSE /\ pc' = "done"
            /\ UNCHANGED <<raised, fileVars>>
    /\ UNCHANGED <<prog, i, html, fetchErr, post_data, scraperVars, openaiVars, anthropicVars>>

----------------------------------------------------------------------------
(* anthropic_scraper.py: main() = fetch_anthropic_news() then save_results(). *)

\* the GET, find_all and the duplicate filter
anthropic_fetch ==
    /\ prog = "anthropic" /\ pc = "init"
    /\ \/ \E e \in RequestExceptions :
            /\ fetchErr' = e
            /\ UNCHANGED <<html, news_links, unique_links, i>>
            /\ pc' = "main"
       \/ \E anchors \in AnthropicPages :
            /\ fetchErr' = "none" /\ html' = [anchors |-> anchors]
            /\ news_links' = find_news_links(anchors)
            /\ unique_links' = filter_unique(news_links', {})
            /\ i' = 1
            /\ pc' = "loop"
    /\ UNCHANGED <<prog, raised, post_data, news_posts, scraperVars, openaiVars, fileVars>>

\* one iteration of: for i, link in enumerate(unique_links[:15], 1)
anthropic_loop ==
    /\ prog = "anthropic" /\ pc = "loop" /\ i <= Len(Take(unique_links, AnthropicCap))
    /\ post_data' = anthropic_post_data(unique_links[i])
    /\ news_posts' = IF anthropic_keep(post_data') THEN Append(news_posts, post_data') ELSE news_posts
    /\ i' = i + 1
    /\ UNCHANGED <<prog, pc, html, fetchErr, raised, news_links, unique_links,
                   scraperVars, openaiVars, fileVars>>

\* return news_posts
anthropic_return ==
    /\ prog = "anthropic" /\ pc = "loop" /\ i > Len(Take(unique_links, AnthropicCap))
    /\ pc' = "main"
    /\ UNCHANGED <<prog, i, html, fetchErr, raised, post_data, scraperVars, openaiVars,
                   anthropicVars, fileVars>>

\* main: if news_posts: save_results(news_posts); the reports directory is
\* not created by this script
anthropic_main ==
    /\ prog = "anthropic" /\ pc = "main"
    /\ IF news_posts # <<>>
       THEN /\ jsonFile' = json_dump(news_posts, AnthropicKeys)
            /\ \E reportsDir \in BOOLEAN :
                 IF reportsDir
                 THEN /\ report' = anthropic_report_lines(news_posts)
                      /\ reportFile' = ReportPath
                      /\ raised' = raised /\ pc' = "done"
                 ELSE /\ raised' = "FileNotFoundError" /\ pc' = "raised"
                      /\ UNCHANGED <<report, reportFile>>
       ELSE /\ pc' = "done"
            /\ UNCHANGED <<raised, fileVars>>
    /\ UNCHANGED <<prog, i, html, fetchErr, post_data, scraperVars, openaiVars, anthropicVars>>

----------------------------------------------------------------------------

Next ==
    \/ load_config
    \/ fetch_page
    \/ scrape_competitor
    \/ scrape_all_sleep
    \/ run
    \/ openai_fetch
    \/ openai_loop
    \/ openai_return
    \/ openai_main
    \/ anthropic_fetch
    \/ anthropic_loop
    \/ anthropic_return
    \/ anthropic_main

Spec == Init /\ [][Next]_vars

----------------------------------------------------------------------------
(* Properties of the pipeline of scraper.py.                               *)

Range(s) == {s[j] : j \in DOMAIN s}

Competitors == config.competitors

Finished == prog = "scraper" /\ pc = "done"

\* the targets whose fetch failed
FailedTargets == {e.target : e \in {f \in Range(log) : f.ev = "fetch" /\ ~f.ok}}

\* the number of fetches made for target t
FetchesOf(t) == Cardinality({j \in DOMAIN log : log[j].ev = "fetch" /\ log[j].target = t})

\* the line number of the t-th section heading of a report (0 if none)
HeadingLine(rep, t) ==
    LET hits == {j \in DOMAIN rep :
                   /\ rep[j].line = "h2"
                   /\ Cardinality({m \in 1..j : rep[m].line = "h2"}) = t}
    IN  IF hits = {} THEN 0 ELSE CHOOSE j \in hits : TRUE

\* the lines of the t-th section of a report, its heading first
SectionOf(rep, t) ==
    LET from == HeadingLine(rep, t)
        next == HeadingLine(rep, t + 1)
    IN  IF from = 0 THEN <<>>
        ELSE SubSeq(rep, from, IF next = 0 THEN Len(rep) ELSE next - 1)

\* the section headings of a report, top to bottom
Headings(rep) ==
    LET IsHeading(l) == l.line = "h2"
        hs == SelectSeq(rep, IsHeading)
    IN  [j \in 1..Len(hs) |-> hs[j].text]

\* C1: every target whose fetch failed has a result with no items; the run
\* that ends has written a report, and the section of that target in it
\* says "No recent updates found".
C1_FailedFetchEmptySection ==
    prog = "scraper" =>
        \A t \in FailedTargets :
            /\ Len(results) >= t => results[t].data = <<>>
            /\ pc = "done" =>
                 /\ report # <<>> /\ ret = ReportPath
                 /\ LET sec == SectionOf(report, t)
                    IN  /\ sec # <<>>
                        /\ sec[1] = Line("h2", Competitors[t].name)
                        /\ \E j \in DOMAIN sec : sec[j].line = "none"

C1_Witness ==
    /\ prog = "scraper" /\ pc = "done"
    /\ Len(results) = 2
    /\ FailedTargets = {2}
    /\ results[1].data # <<>>

\* C2: scrape_all fetches each configured target exactly once, in order, and
\* ends with one result per target; a failed fetch does not stop the loop.
C2_EachTargetOnce ==
    prog = "scraper" =>
        /\ \A t \in 1..Len(Competitors) : FetchesOf(t) <= 1
        /\ \A e \in Range(log) : e.target \in 1..Len(Competitors)
        /\ pc = "fetch" => Len(results) = i - 1
        /\ Finished =>
             /\ Len(results) = Len(Competitors)
             /\ \A t \in 1..Len(Competitors) :
                  /\ FetchesOf(t) = 1
                  /\ results[t].name = Competitors[t].name
                  /\ results[t].url = Competitors[t].url

C2_Witness ==
    /\ Finished
    /\ Len(Competitors) = 2
    /\ 1 \in FailedTargets
    /\ results[2].data # <<>>

\* C3: the section headings of the report, top to bottom, are the names of
\* the configured targets in configured order.
C3_SectionOrder ==
    Finished => Headings(report) = [t \in 1..Len(Competitors) |-> Competitors[t].name]

C3_Witness ==
    /\ Finished
    /\ Len(Competitors) = 2
    /\ Competitors[1].name = BetaName /\ Competitors[2].name = AcmeName
    /\ FailedTargets = {1}
    /\ Headings(report) = <<BetaName, AcmeName>>

\* C10: the run raises no error to its caller, whatever config.json holds
\* and whatever the fetches return, and ends with a report path returned.
C10_RunNeverRaises ==
    prog = "scraper" =>
        /\ raised = "none"
        /\ pc = "done" => ret = ReportPath /\ report # <<>>

----------------------------------------------------------------------------
(* Properties of the extractors.                                           *)

\* scraper.py: scrape_competitor has just returned the result of target i
Parsed == prog = "scraper" /\ pc = "sleep"

\* the candidate nodes parse_content looked at, and the items it returned
ParsedNodes == Take(html.articles, 5)

ParsedItems == results[i].data

\* the site scripts: the loop has processed at least one element
OpenaiStepped == prog = "openai" /\ i > 1

AnthropicStepped == prog = "anthropic" /\ i > 1

\* fetch_openai_blog / fetch_anthropic_news has returned after a successful GET
OpenaiReturned == prog = "openai" /\ pc \in {"main", "done", "raised"} /\ fetchErr = "none"

AnthropicReturned ==
    prog = "anthropic" /\ pc \in {"main", "done", "raised"} /\ fetchErr = "none"

\* the href attribute of the first <a> of an element, <<>> if there is none
HrefOf(node) == IF node.anchor = <<>> THEN <<>> ELSE node.anchor[1]

\* C4: every item an extractor returns, and every item written to a report,
\* has a non-empty title.
C4_TitlesNonEmpty ==
    /\ \A r \in Range(results) : \A item \in Range(r.data) : item.title # <<>>
    /\ \A p \in Range(blog_posts) : HasKey(p, "title") /\ p["title"] # <<>>
    /\ \A p \in Range(news_posts) : HasKey(p, "title") /\ p["title"] # <<>>
    /\ \A l \in Range(report) : l.line \in {"item", "h3"} => l.text # <<>>

\* C5 as stated: a candidate node without a heading contributes no item, so
\* the items are as many as the candidate nodes (within the cap) that have
\* a heading.
C5_TitlelessDropped ==
    /\ Parsed =>
         Len(ParsedItems)
           = Cardinality({j \in DOMAIN ParsedNodes : ParsedNodes[j].heading # <<>>})
    /\ OpenaiReturned =>
         LET taken == Take(articles, 10)
         IN  Len(blog_posts) = Cardinality({j \in DOMAIN taken : taken[j].heading # <<>>})

\* C5 as amended: a node without a heading is kept.  parse_content returns
\* one item per candidate node within the cap, titled "No title found" where
\* the node has no heading; fetch_openai_blog titles such a node with the
\* first 100 characters of its text followed by "...", and drops exactly the
\* nodes whose heading has no text.
C5_TitlelessKept ==
    /\ Parsed =>
         /\ Len(ParsedItems) = Len(ParsedNodes)
         /\ \A j \in DOMAIN ParsedNodes :
              ParsedNodes[j].heading = <<>> => ParsedItems[j].title = NoTitleFound
    /\ OpenaiReturned =>
         LET taken == Take(articles, 10)
             kept == {j \in DOMAIN taken :
                        taken[j].heading = <<>> \/ Strip(taken[j].heading[1]) # <<>>}
             PostOf(j) == blog_posts[Cardinality({m \in kept : m <= j})]
         IN  /\ Len(blog_posts) = Cardinality(kept)
             /\ \A j \in kept :
                  PostOf(j)["title"] =
                    IF taken[j].heading = <<>>
                    THEN SubSeq(Strip(taken[j].text), 1, Min(100, Len(Strip(taken[j].text))))
                         \o <<".", ".", ".">>
                    ELSE Strip(taken[j].heading[1])

C5_Witness ==
    /\ Parsed
    /\ Len(ParsedNodes) = 5
    /\ ParsedNodes[1].heading = <<>>
    /\ ParsedItems[1].title = NoTitleFound
    /\ ParsedItems[5].title = <<"T">>

\* C6: an extractor returns at most its maximum of items (5, 10, 15) and at
\* most as many as the selector matched; with no match it returns the empty
\* list and raises nothing.
C6_ItemCountBounded ==
    /\ Parsed =>
         /\ Len(ParsedItems) <= 5
         /\ Len(ParsedItems) <= Len(html.articles)
         /\ html.articles = <<>> => ParsedItems = <<>> /\ raised = "none"
    /\ prog = "openai" =>
         /\ Len(blog_posts) <= 10
         /\ Len(blog_posts) <= Len(articles)
         /\ OpenaiReturned /\ articles = <<>> => blog_posts = <<>> /\ raised = "none"
    /\ prog = "anthropic" =>
         /\ Len(news_posts) <= 15
         /\ Len(news_posts) <= Len(news_links)
         /\ AnthropicReturned /\ news_links = <<>> => news_posts = <<>> /\ raised = "none"

C6_Witness ==
    /\ Parsed
    /\ Len(html.articles) > 5
    /\ Len(ParsedItems) = 5

\* the scheme and host of a URL: the text before its third "/"
TargetBase(url) ==
    LET slashes == {j \in DOMAIN url : url[j] = "/"}
        third == {j \in slashes : Cardinality({m \in slashes : m < j}) = 2}
    IN  IF third = {} THEN url ELSE SubSeq(url, 1, (CHOOSE j \in third : TRUE) - 1)

\* C7: every link the pipeline stores and writes is absolute; a root-relative
\* href is stored as the base of the target's URL followed by the href.
C7_LinksAbsolute ==
    /\ Parsed =>
         \A j \in DOMAIN ParsedNodes :
            LET href == HrefOf(ParsedNodes[j])
                link == ParsedItems[j].link
            IN  /\ link # <<>> => Head(link) # "/"
                /\ href # <<>> /\ StartsWith(href[1], <<"/">>) =>
                     link = TargetBase(Competitors[i].url) \o href[1]
    /\ prog = "scraper" => \A l \in Range(report) : l.line = "link" => Head(l.text) # "/"

\* the link stored for an href attribute (<<>> if the element has none)
LinkNormalized(base, href, pd) ==
    IF href = <<>> THEN ~HasKey(pd, "link")
    ELSE /\ HasKey(pd, "link")
         /\ IF href[1] # <<>> /\ Head(href[1]) = "/"
            THEN /\ Len(pd["link"]) = Len(base) + Len(href[1])
                 /\ SubSeq(pd["link"], 1, Len(base)) = base
                 /\ SubSeq(pd["link"], Len(base) + 1, Len(pd["link"])) = href[1]
            ELSE pd["link"] = href[1]
         /\ normalize_link(base, pd["link"]) = pd["link"]

\* C8: the link normalisation of the site scripts leaves an absolute URL
\* unchanged, turns a root-relative href into base + href with the base
\* prefixed once, and returns a normalised link unchanged.
C8_NormalizeIdempotent ==
    /\ OpenaiStepped => LinkNormalized(OpenaiBase, HrefOf(articles[i - 1]), post_data)
    /\ AnthropicStepped =>
         LinkNormalized(AnthropicBase, unique_links[i - 1].href, post_data)
    /\ \A p \in Range(blog_posts) :
         HasKey(p, "link") => normalize_link(OpenaiBase, p["link"]) = p["link"]
    /\ \A p \in Range(news_posts) : normalize_link(AnthropicBase, p["link"]) = p["link"]

C8_Witness ==
    /\ OpenaiStepped
    /\ HrefOf(articles[i - 1]) = <<RelHref>>
    /\ post_data["link"] = OpenaiBase \o RelHref
    /\ \E p \in Range(blog_posts) : HasKey(p, "link") /\ p["link"] = OpenaiAbsHref
    /\ \E p \in Range(blog_posts) : HasKey(p, "link") /\ p["link"] = OpenaiBase \o ProtoRelHref

\* the link text of the anchor the loop of fetch_anthropic_news processed last
LastLinkText == Strip(unique_links[i - 1].text)

Labels == Range(categories)

LabelsOf(text) == {c \in Labels : StartsWith(text, c)}

\* C9 as stated: the category check applied to a title it has already
\* stripped strips nothing further.
C9_StripIdempotent ==
    AnthropicStepped /\ HasKey(post_data, "title") =>
        strip_category(post_data["title"], categories)
          = [category |-> <<>>, link_text |-> post_data["title"]]

\* C9 as amended: one application of the category check strips exactly the
\* one label the link text starts with (no label is a prefix of another)
\* and trims the rest; applied again it strips nothing further unless the
\* rest itself starts with a label.
C9_StripsOneLabel ==
    AnthropicStepped =>
        LET text == LastLinkText
            rest(c) == Strip(SubSeq(text, Len(c) + 1, Len(text)))
            title == IF HasKey(post_data, "title") THEN post_data["title"] ELSE <<>>
        IN  /\ Cardinality(LabelsOf(text)) <= 1
            /\ LabelsOf(text) = {} => ~HasKey(post_data, "category") /\ title = text
            /\ \A c \in LabelsOf(text) :
                 /\ HasKey(post_data, "category") /\ post_data["category"] = c
                 /\ title = rest(c)
            /\ LabelsOf(title) = {} =>
                 strip_category(title, categories) = [category |-> <<>>, link_text |-> title]

C9_Witness ==
    /\ AnthropicStepped
    /\ LastLinkText = Research \o Policy \o <<" ", "T">>
    /\ post_data["category"] = Research
    /\ post_data["title"] = Policy \o <<" ", "T">>
    /\ strip_category(post_data["title"], categories).link_text = <<"T">>

----------------------------------------------------------------------------
(* Properties of the output files and of the loop of scrape_all.           *)

\* the list of dictionaries read back from a JSON file of (key, value) pairs
JsonLoad(file) ==
    [j \in 1..Len(file) |->
        [key \in {pair[1] : pair \in Range(file[j])} |->
            (CHOOSE pair \in Range(file[j]) : pair[1] = key)[2]]]

\* the items of all results of the pipeline, in order
RECURSIVE AllItems(_)
AllItems(rs) == IF rs = <<>> THEN <<>> ELSE Head(rs).data \o AllItems(Tail(rs))

\* the items the script that ran has extracted
Extracted ==
    IF prog = "scraper" THEN AllItems(results)
    ELSE IF prog = "openai" THEN blog_posts ELSE news_posts

\* C11: every completed run has written, besides the report, a JSON file,
\* and reading that file back gives the extracted items, field for field and
\* in the same order.
C11_JsonRoundTrip ==
    pc = "done" =>
        /\ report # <<>>
        /\ jsonFile # <<>>
        /\ Len(JsonLoad(jsonFile)) = Len(Extracted)
        /\ \A j \in DOMAIN Extracted :
             /\ DOMAIN JsonLoad(jsonFile)[j] = DOMAIN Extracted[j]
             /\ \A key \in DOMAIN Extracted[j] : JsonLoad(jsonFile)[j][key] = Extracted[j][key]

\* the positions of the fetches in the log
FetchPositions == {j \in DOMAIN log : log[j].ev = "fetch"}

\* C12: between the fetch of a target and the fetch of the next one a sleep
\* takes place, whether the earlier fetch succeeded or failed: no two
\* fetches are adjacent in the order of events.
C12_SleepBetweenFetches ==
    prog = "scraper" =>
        /\ \A a, b \in FetchPositions :
             a < b => \E j \in (a + 1)..(b - 1) :
                         log[j].ev = "sleep" /\ log[j].target = log[a].target
        /\ Finished => \A a \in FetchPositions : a < Len(log) /\ log[a + 1].ev = "sleep"

C12_Witness ==
    /\ prog = "scraper"
    /\ Len(log) >= 3
    /\ log[1].ev = "fetch" /\ ~log[1].ok
    /\ log[2].ev = "sleep"
    /\ log[3].ev = "fetch" /\ log[3].ok /\ log[3].target = 2

----------------------------------------------------------------------------
(* Properties of the site scripts.                                         *)

\* the href a stored link of fetch_anthropic_news was made from
HrefOfLink(link) == SubSeq(link, Len(AnthropicBase) + 1, Len(link))

\* the positions of the matched anchors that carry a given href
AnchorsWith(href) == {j \in DOMAIN news_links : news_links[j].href = <<href>>}

\* C13: the posts fetch_anthropic_news returns have pairwise distinct links;
\* an href is in at most one post, and that post is made from the first
\* matched anchor that carries the href.
C13_DistinctLinks ==
    prog = "anthropic" =>
        /\ \A a, b \in DOMAIN news_posts :
             a # b => news_posts[a]["link"] # news_posts[b]["link"]
        /\ \A j \in DOMAIN news_links :
             Cardinality({a \in DOMAIN news_posts :
                            HrefOfLink(news_posts[a]["link"]) = news_links[j].href[1]}) <= 1
        /\ \A a \in DOMAIN news_posts :
             LET from == AnchorsWith(HrefOfLink(news_posts[a]["link"]))
                 first == CHOOSE j \in from : \A m \in from : j <= m
                 text == Strip(news_links[first].text)
             IN  /\ from # {}
                 /\ news_posts[a]["title"] =
                      IF HasKey(news_posts[a], "category")
                      THEN Strip(SubSeq(text, Len(news_posts[a]["category"]) + 1, Len(text)))
                      ELSE text

C13_Witness ==
    /\ AnthropicReturned
    /\ Len(news_links) >= 2
    /\ news_links[1] = Anchor(<<NewsA>>, Policy \o <<" ">> \o TextT)
    /\ news_links[2] = Anchor(<<NewsA>>, TextT)
    /\ Len(unique_links) = 1
    /\ news_posts = << ("link" :> AnthropicBase \o NewsA) @@ ("category" :> Policy)
                       @@ ("title" :> TextT) >>

\* the posts the site script that ran has extracted
SitePosts == IF prog = "openai" THEN blog_posts ELSE news_posts

\* main of the site script has ended, normally or by an error
SiteEnded == prog \in {"openai", "anthropic"} /\ pc \in {"done", "raised"}

\* C14: main of a site script calls save_results only with a non-empty
\* list: after a failed fetch or an extraction of no post neither file is
\* written, and the "No ... posts found" line is never written.
C14_SaveOnlyNonEmpty ==
    prog \in {"openai", "anthropic"} =>
        /\ jsonFile # <<>> \/ report # <<>> \/ reportFile # <<>> =>
             SitePosts # <<>> /\ fetchErr = "none"
        /\ \A l \in Range(report) : l.line # "none"
        /\ SiteEnded /\ (fetchErr # "none" \/ SitePosts = <<>>) =>
             jsonFile = <<>> /\ report = <<>> /\ raised = "none"
        /\ SiteEnded /\ SitePosts # <<>> => Len(jsonFile) = Len(SitePosts)

C14_Witness ==
    /\ prog = "openai" /\ pc = "done"
    /\ fetchErr = "none"
    /\ articles # <<>>
    /\ blog_posts = <<>>
    /\ jsonFile = <<>> /\ report = <<>> /\ reportFile = <<>>

====
